---- MODULE Spec2Model ----
(***************************************************************************)
(* A model of the json-ld crate's structural equality (mapped_eq), of its  *)
(* dummy loader, of the post-processing of Document::compact_with, and of   *)
(* Document::expand and RemoteDocument, and of the syntax crate's          *)
(* CompactIri and context printer.                                         *)
(*                                                                         *)
(* Rust values are modelled as follows.                                    *)
(*   Option<T>       a sequence of length 0 (None) or 1 (Some)             *)
(*   Meta<T, M>      [value, metadata]                                     *)
(*   Entry<T, M>     [key_metadata, value : Meta<T, M>]                    *)
(*   Stripped<T>     [stripped : T]            (the field `.0`)            *)
(*   Vec / slice     a sequence                                            *)
(*   HashSet,        a sequence without repetition: the order in which     *)
(*   Multiset, maps  the container happens to be iterated                  *)
(* A Rust type T : MappedEq is a tuple <<constructor, argument>>, so that  *)
(* the trait dispatch of `a.mapped_eq(b, f)` is the CASE of MappedEq.      *)
(***************************************************************************)
EXTENDS Integers, Sequences, FiniteSets, TLC

VARIABLES
    \* a call of mapped_eq
    ty,            \* the Rust type of the two operands
    a,             \* `self`
    b,             \* `other`
    f,             \* the renaming of blank identifiers, a function on BlankIds
    res,           \* the value returned by a.mapped_eq(b, f)
    eq_pc,         \* "call" before mapped_eq has run, "ret" after
    \* a NoLoader and the requests made to it
    loader,        \* the loader value
    loads,         \* the requests so far, each with the result it got
    \* a call of Document::compact_with
    json_context,  \* context.as_json_with(meta_context)
    compact_arrays,\* options.compact_arrays
    graph_key,     \* what compact_iri gives for the keyword @graph in this context
    expanded,      \* the result of expand_with
    compacted,     \* the result of the compaction of the expanded document
    map,           \* the object map being built
    result,        \* what compact_with returns
    c_pc,          \* the position in compact_with
    \* a document and the calls made on it
    document,      \* a JSON value, or a RemoteDocument around a document
    new_doc,       \* the contents given to the last RemoteDocument::new, or
                   \* written since through deref_mut
    new_url,       \* the base URL given to the last RemoteDocument::new
    call,          \* the last call on the document, with what it returned
    \* a compact IRI and the calls made on it
    ciri,          \* a CompactIri or a CompactIriBuf: its type and its string
    ciri_call,     \* the last call on it, with what it returned
    \* the printing of a context value
    context_value, \* the context::Value being printed
    sizes,         \* the vector of Size records, each with the node that pushed it
    index,         \* the index into sizes of the print pass
    emitted,       \* the arrays and objects emitted so far, each with the
                   \* index and the record it read
    p_k,           \* the number of arrays and objects the current pass has met
    p_pc,          \* "precompute", "print", "done" or "panic"
    \* three calls of mapped_eq in a row
    rel,           \* the type, the operands a, b, c and the renamings f, g
    rel_res,       \* what a.mapped_eq(b, f), b.mapped_eq(c, g) and
                   \* a.mapped_eq(c, g after f) returned
    rel_pc         \* the call to come: "ab", "bc", "ac", or "done"

eqVars == <<ty, a, b, f, res, eq_pc>>
loaderVars == <<loader, loads>>
compactVars == <<json_context, compact_arrays, graph_key, expanded, compacted, map,
                 result, c_pc>>
docVars == <<document, new_doc, new_url, call>>
ciriVars == <<ciri, ciri_call>>
printVars == <<context_value, sizes, index, emitted, p_k, p_pc>>
relVars == <<rel, rel_res, rel_pc>>
vars == <<eqVars, loaderVars, compactVars, docVars, ciriVars, printVars, relVars>>

(***************************************************************************)
(* The parts of the model do not interact: a specification runs one  *)
(* of them and leaves the variables of the others at rest.                 *)
(***************************************************************************)
EqIdle ==
    /\ ty = <<"None">> /\ a = <<>> /\ b = <<>> /\ f = <<>>
    /\ res = FALSE /\ eq_pc = "idle"
LoaderIdle == loader = "none" /\ loads = <<>>
CompactIdle ==
    /\ json_context = <<>> /\ compact_arrays = FALSE /\ graph_key = <<>>
    /\ expanded = <<>> /\ compacted = <<>> /\ map = <<>>
    /\ result = <<>> /\ c_pc = "idle"
DocIdle == document = <<>> /\ new_doc = <<>> /\ new_url = <<>> /\ call = <<>>
CiriIdle == ciri = <<>> /\ ciri_call = <<>>
PrintIdle ==
    /\ context_value = <<>> /\ sizes = <<>> /\ index = 0 /\ emitted = <<>>
    /\ p_k = 0 /\ p_pc = "idle"
RelIdle == rel = <<>> /\ rel_res = <<>> /\ rel_pc = "idle"
IdleExcept(part) ==
    /\ IF part = "eq" THEN TRUE ELSE EqIdle
    /\ IF part = "loader" THEN TRUE ELSE LoaderIdle
    /\ IF part = "compact" THEN TRUE ELSE CompactIdle
    /\ IF part = "doc" THEN TRUE ELSE DocIdle
    /\ IF part = "ciri" THEN TRUE ELSE CiriIdle
    /\ IF part = "print" THEN TRUE ELSE PrintIdle
    /\ IF part = "rel" THEN TRUE ELSE RelIdle
FrameExcept(part) ==
    /\ IF part = "eq" THEN TRUE ELSE UNCHANGED eqVars
    /\ IF part = "loader" THEN TRUE ELSE UNCHANGED loaderVars
    /\ IF part = "compact" THEN TRUE ELSE UNCHANGED compactVars
    /\ IF part = "doc" THEN TRUE ELSE UNCHANGED docVars
    /\ IF part = "ciri" THEN TRUE ELSE UNCHANGED ciriVars
    /\ IF part = "print" THEN TRUE ELSE UNCHANGED printVars
    /\ IF part = "rel" THEN TRUE ELSE UNCHANGED relVars

(***************************************************************************)
(* Atoms.                                                                  *)
(***************************************************************************)
BlankIds == {"_:b0", "_:b1"}
Iris == {"http://ex/p", "http://ex/q"}
InvalidIds == {"not an iri", "%"}
MetaData == {"m0", "m1"}

\* The renamings a caller can supply: Fn(&B) -> &B.
Renamings == [BlankIds -> BlankIds]
Identity == [l \in BlankIds |-> l]

None == <<>>
Some(x) == <<x>>
Meta(v, m) == [value |-> v, metadata |-> m]
Entry(v, km, m) == [key_metadata |-> km, value |-> Meta(v, m)]
Stripped(x) == [stripped |-> x]

Blank(l) == [tag |-> "Blank", name |-> l]
Iri(i) == [tag |-> "Iri", name |-> i]
Valid(v) == [tag |-> "Valid", id |-> v]
Invalid(s) == [tag |-> "Invalid", str |-> s]

ValidIds == {Blank(l) : l \in BlankIds} \cup {Iri(i) : i \in Iris}
Ids == {Valid(v) : v \in ValidIds} \cup {Invalid(s) : s \in InvalidIds}

\* Rust types implementing MappedEq.
TId == <<"Id">>
TValidId == <<"ValidId">>
TOption(T) == <<"Option", T>>
TMeta(T) == <<"Meta", T>>
TStripped(T) == <<"Stripped", T>>
TEntry(T) == <<"Entry", T>>
TVec(T) == <<"Vec", T>>
TSlice(T) == <<"Slice", T>>
THashSet(T) == <<"HashSet", T>>
TIndexed(T) == <<"Indexed", T>>

\* The element types of the object model.
TObject == <<"Object">>
TNode == <<"Node">>
TList == <<"List">>
TProperties == <<"Properties">>
TReverseProperties == <<"ReverseProperties">>
TIndexedObject == TMeta(TIndexed(TObject))
TIndexedNode == TMeta(TIndexed(TNode))
\* ExpandedDocument = HashSet<Stripped<IndexedObject>>
TExpandedDocument == THashSet(TStripped(TIndexedObject))
\* `[T]` used through UnorderedMappedEq (the objects of one property).
TUnordered(T) == <<"Unordered", T>>
\* The types of the fields of a node, of a list and of a binding.
TNodeId == TOption(TEntry(TId))
TNodeTypes == TOption(TEntry(TVec(TMeta(TId))))
TNodeGraph == TOption(TEntry(THashSet(TStripped(TIndexedObject))))
TNodeIncluded == TOption(TEntry(THashSet(TStripped(TIndexedNode))))
TNodeReverse == TOption(TEntry(TReverseProperties))
TListEntry == TEntry(TVec(TIndexedObject))
TBindingObjects(T) ==
    IF T = TProperties THEN TUnordered(TStripped(TIndexedObject))
    ELSE TUnordered(TStripped(TIndexedNode))

(***************************************************************************)
(* The object model: values, nodes, lists, indexed objects.                *)
(***************************************************************************)
\* A value object: a literal and the metadata it carries.
Value(l, m) == [lit |-> l, metadata |-> m]
ObjValue(v) == [tag |-> "Value", val |-> v]
ObjNode(n) == [tag |-> "Node", node |-> n]
ObjList(l) == [tag |-> "List", list |-> l]
List(items, km, m) == [entry |-> Entry(items, km, m)]
Indexed(i, v) == [index |-> i, inner |-> v]
Node(id, types, graph, included, props, rev) ==
    [id |-> id, types |-> types, graph |-> graph, included |-> included,
     properties |-> props, reverse_properties |-> rev]
\* One binding of a property map: the key and the objects (or nodes) it maps to.
Binding(k, objs) == [key |-> k, objects |-> objs]

\* Value::stripped(): the value without its metadata.
StrippedValue(v) == v.lit

\* Indexed::index(): the index string, without the entry's metadata.
IndexOf(x) == IF Len(x.index) = 0 THEN None ELSE Some(x.index[1].value.value)

Min(S) == CHOOSE i \in S : \A j \in S : i <= j

(***************************************************************************)
(* mapped_eq.                                                              *)
(***************************************************************************)
RECURSIVE MappedEq(_, _, _, _)

\* A ValidId comparison that forgets to apply the renaming.
ValidIdMappedEq_NoRenaming(x, y, g) ==
    CASE x.tag = "Blank" /\ y.tag = "Blank" -> x.name = y.name
      [] x.tag = "Iri" /\ y.tag = "Iri" -> x.name = y.name
      [] OTHER -> FALSE

\* A ValidId comparison that renames the label of other, not that of self.
ValidIdMappedEq_RenamesOther(x, y, g) ==
    CASE x.tag = "Blank" /\ y.tag = "Blank" -> x.name = g[y.name]
      [] x.tag = "Iri" /\ y.tag = "Iri" -> x.name = y.name
      [] OTHER -> FALSE

\* impl MappedEq for ValidId<T, B>
ValidIdMappedEq(x, y, g) ==
    CASE x.tag = "Blank" /\ y.tag = "Blank" -> g[x.name] = y.name
      [] x.tag = "Iri" /\ y.tag = "Iri" -> x.name = y.name
      [] OTHER -> FALSE

\* impl MappedEq for Id<T, B>
IdMappedEq(x, y, g) ==
    CASE x.tag = "Valid" /\ y.tag = "Valid" -> ValidIdMappedEq(x.id, y.id, g)
      [] x.tag = "Invalid" /\ y.tag = "Invalid" -> x.str = y.str
      [] OTHER -> FALSE

\* impl MappedEq for Option<T>
OptionMappedEq(T, x, y, g) ==
    CASE Len(x) = 1 /\ Len(y) = 1 -> MappedEq(T, x[1], y[1], g)
      [] Len(x) = 0 /\ Len(y) = 0 -> TRUE
      [] OTHER -> FALSE

\* fn opt_mapped_eq
OptMappedEq(T, x, y, g) ==
    CASE Len(x) = 1 /\ Len(y) = 1 -> MappedEq(T, x[1], y[1], g)
      [] Len(x) = 0 /\ Len(y) = 0 -> TRUE
      [] OTHER -> FALSE

\* A Meta comparison that also compares the metadata.
MetaMappedEq_WithMetadata(T, x, y, g) ==
    x.metadata = y.metadata /\ MappedEq(T, x.value, y.value, g)

\* impl MappedEq for locspan::Meta<T, M>
MetaMappedEq(T, x, y, g) == MappedEq(T, x.value, y.value, g)

\* impl MappedEq for locspan::Stripped<T>
StrippedMappedEq(T, x, y, g) == MappedEq(T, x.stripped, y.stripped, g)

\* impl MappedEq for json_ld_syntax::Entry<T, M>
EntryMappedEq(T, x, y, g) == MappedEq(T, x.value.value, y.value.value, g)

\* impl MappedEq for Indexed<T, M>
IndexedMappedEq(T, x, y, g) ==
    IndexOf(x) = IndexOf(y) /\ MappedEq(T, x.inner, y.inner, g)

\* A slice comparison that pairs the elements up in any order.
RECURSIVE UnorderedLoop(_, _, _, _, _, _)
SliceMappedEq_AnyOrder(T, x, y, g) ==
    IF Len(x) = Len(y) THEN UnorderedLoop(T, x, y, g, 1, {}) ELSE FALSE

\* impl MappedEq for [T]
SliceMappedEq(T, x, y, g) ==
    /\ Len(x) = Len(y)
    /\ \A i \in 1..Len(x) : MappedEq(T, x[i], y[i], g)

\* impl MappedEq for Vec<T>
VecMappedEq(T, x, y, g) == SliceMappedEq(T, x, y, g)

\* The loop 'self_items of unordered_mapped_eq, from item k of self on:
\* the first unselected item of other_vec that is mapped_eq is selected.
\* The loop without its marking: a matched item of other_vec stays available.
RECURSIVE UnorderedLoop_NoMark(_, _, _, _, _, _)
UnorderedLoop_NoMark(T, x, other_vec, g, k, selected) ==
    IF k > Len(x) THEN TRUE
    ELSE LET hits == {i \in 1..Len(other_vec) :
                         i \notin selected /\ MappedEq(T, x[k], other_vec[i], g)}
         IN  IF hits = {} THEN FALSE
             ELSE UnorderedLoop_NoMark(T, x, other_vec, g, k + 1, selected)

UnorderedLoop(T, x, other_vec, g, k, selected) ==
    IF k > Len(x) THEN TRUE
    ELSE LET hits == {i \in 1..Len(other_vec) :
                         i \notin selected /\ MappedEq(T, x[k], other_vec[i], g)}
         IN  IF hits = {} THEN FALSE
             ELSE UnorderedLoop(T, x, other_vec, g, k + 1, selected \cup {Min(hits)})

\* UnorderedMappedEq::unordered_mapped_eq
UnorderedMappedEq(T, x, y, g) ==
    IF Len(x) = Len(y) THEN UnorderedLoop(T, x, y, g, 1, {}) ELSE FALSE

\* impl MappedEq for HashSet<T>
HashSetMappedEq(T, x, y, g) == UnorderedMappedEq(T, x, y, g)

\* Properties: the loop 'self_items, from binding k of self on.  A binding
\* of other_vec is taken when it is unselected, its key is mapped_eq and
\* its objects are unordered_mapped_eq.
RECURSIVE PropertiesLoop(_, _, _, _, _)
PropertiesLoop(x, other_vec, g, k, selected) ==
    IF k > Len(x) THEN TRUE
    ELSE LET hits == {i \in 1..Len(other_vec) :
                         /\ i \notin selected
                         /\ MappedEq(TId, x[k].key.value, other_vec[i].key.value, g)
                         /\ UnorderedMappedEq(TStripped(TIndexedObject),
                                              x[k].objects, other_vec[i].objects, g)}
         IN  IF hits = {} THEN FALSE
             ELSE PropertiesLoop(x, other_vec, g, k + 1, selected \cup {Min(hits)})

\* impl MappedEq for node::Properties
PropertiesMappedEq(x, y, g) ==
    IF Len(x) = Len(y) THEN PropertiesLoop(x, y, g, 1, {}) ELSE FALSE

\* ReverseProperties: the same loop over (property, nodes) bindings.
RECURSIVE ReversePropertiesLoop(_, _, _, _, _)
ReversePropertiesLoop(x, other_vec, g, k, selected) ==
    IF k > Len(x) THEN TRUE
    ELSE LET hits == {i \in 1..Len(other_vec) :
                         /\ i \notin selected
                         /\ MappedEq(TId, x[k].key.value, other_vec[i].key.value, g)
                         /\ UnorderedMappedEq(TStripped(TIndexedNode),
                                              x[k].objects, other_vec[i].objects, g)}
         IN  IF hits = {} THEN FALSE
             ELSE ReversePropertiesLoop(x, other_vec, g, k + 1, selected \cup {Min(hits)})

\* impl MappedEq for node::ReverseProperties
ReversePropertiesMappedEq(x, y, g) ==
    IF Len(x) = Len(y) THEN ReversePropertiesLoop(x, y, g, 1, {}) ELSE FALSE

\* impl MappedEq for Node
NodeMappedEq(x, y, g) ==
    /\ OptMappedEq(TNodeId[2], x.id, y.id, g)
    /\ OptMappedEq(TNodeIncluded[2], x.included, y.included, g)
    /\ OptMappedEq(TNodeGraph[2], x.graph, y.graph, g)
    /\ PropertiesMappedEq(x.properties, y.properties, g)
    /\ OptMappedEq(TNodeReverse[2], x.reverse_properties, y.reverse_properties, g)

\* impl MappedEq for List: the entry of items, compared in order.
ListMappedEq(x, y, g) == MappedEq(TListEntry, x.entry, y.entry, g)

\* impl MappedEq for Object
ObjectMappedEq(x, y, g) ==
    CASE x.tag = "Value" /\ y.tag = "Value" -> StrippedValue(x.val) = StrippedValue(y.val)
      [] x.tag = "Node" /\ y.tag = "Node" -> NodeMappedEq(x.node, y.node, g)
      [] x.tag = "List" /\ y.tag = "List" -> ListMappedEq(x.list, y.list, g)
      [] OTHER -> FALSE

\* The dispatch of a.mapped_eq(b, f) on the type of the operands.
MappedEq(T, x, y, g) ==
    CASE T[1] = "ValidId" -> ValidIdMappedEq(x, y, g)
      [] T[1] = "Id" -> IdMappedEq(x, y, g)
      [] T[1] = "Option" -> OptionMappedEq(T[2], x, y, g)
      [] T[1] = "Meta" -> MetaMappedEq(T[2], x, y, g)
      [] T[1] = "Stripped" -> StrippedMappedEq(T[2], x, y, g)
      [] T[1] = "Entry" -> EntryMappedEq(T[2], x, y, g)
      [] T[1] = "Indexed" -> IndexedMappedEq(T[2], x, y, g)
      [] T[1] = "Slice" -> SliceMappedEq(T[2], x, y, g)
      [] T[1] = "Vec" -> VecMappedEq(T[2], x, y, g)
      [] T[1] = "HashSet" -> HashSetMappedEq(T[2], x, y, g)
      [] T[1] = "Unordered" -> UnorderedMappedEq(T[2], x, y, g)
      [] T[1] = "Object" -> ObjectMappedEq(x, y, g)
      [] T[1] = "Node" -> NodeMappedEq(x, y, g)
      [] T[1] = "List" -> ListMappedEq(x, y, g)
      [] T[1] = "Properties" -> PropertiesMappedEq(x, y, g)
      [] T[1] = "ReverseProperties" -> ReversePropertiesMappedEq(x, y, g)

(***************************************************************************)
(* The call a.mapped_eq(b, f).                                             *)
(***************************************************************************)
Compare ==
    /\ eq_pc = "call"
    /\ res' = MappedEq(ty, a, b, f)
    /\ eq_pc' = "ret"
    /\ UNCHANGED <<ty, a, b, f>>
    /\ FrameExcept("eq")

NextEq == Compare

\* Operands: two identifiers.
InitId ==
    /\ ty = TId
    /\ a \in Ids
    /\ b \in Ids
    /\ f \in Renamings
    /\ res = FALSE
    /\ eq_pc = "call"
    /\ IdleExcept("eq")

SpecId == InitId /\ [][NextEq]_vars

(***************************************************************************)
(* Operands of bounded size.                                               *)
(***************************************************************************)
MaxLen == 2      \* longest slice, set or multiset drawn as an operand
MaxProps == 2    \* most bindings of a drawn property map

\* Sequences over S of length lo..hi, with and without repetition.
SeqsOf(S, lo, hi) == UNION {[1..k -> S] : k \in lo..hi}
InjSeqsOf(S, lo, hi) ==
    {q \in SeqsOf(S, lo, hi) : \A i, j \in 1..Len(q) : i # j => q[i] # q[j]}

\* A node with an id and nothing else, and a node without anything.
IdNode(id) == Node(Some(Entry(id, "m0", "m0")), None, None, None, <<>>, None)
\* Indexed objects and nodes without index, as stored in sets and multisets.
Item(obj) == Stripped(Meta(Indexed(None, obj), "m0"))
ValueItem(l) == Item(ObjValue(Value(l, "m0")))
NodeItem(id) == Item(ObjNode(IdNode(id)))
RevItem(id) == Item(IdNode(id))

SliceIds == {Valid(Blank("_:b0")), Valid(Blank("_:b1")), Valid(Iri("http://ex/p"))}
ListItems == {ValueItem("a").stripped, NodeItem(Valid(Blank("_:b0"))).stripped,
              NodeItem(Valid(Blank("_:b1"))).stripped}
Lists == {List(q, "m0", "m0") : q \in SeqsOf(ListItems, 0, MaxLen)}

\* Operands: two slices or two Vec of identifiers, or two list objects.
InitSlice ==
    /\ \/ /\ ty \in {TSlice(TId), TVec(TId)}
          /\ a \in SeqsOf(SliceIds, 0, MaxLen)
          /\ b \in SeqsOf(SliceIds, 0, MaxLen)
       \/ /\ ty = TList
          /\ a \in Lists
          /\ b \in Lists
    /\ f \in Renamings
    /\ res = FALSE
    /\ eq_pc = "call"
    /\ IdleExcept("eq")

SpecSlice == InitSlice /\ [][NextEq]_vars

UItems == {ValueItem("a"), ValueItem("b"), NodeItem(Valid(Blank("_:b0"))),
           NodeItem(Valid(Blank("_:b1")))}
PropKeys == {Meta(id, "m0") : id \in SliceIds}
\* The objects bound to one property, and the nodes bound to one reverse property.
PropObjs == {<<ValueItem("a")>>, <<NodeItem(Valid(Blank("_:b0"))), ValueItem("a")>>}
RevNodes == {<<RevItem(Valid(Blank("_:b0")))>>, <<RevItem(Valid(Blank("_:b1")))>>}
\* Property maps: bindings with pairwise different keys, in iteration order.
MapsOf(Objs) ==
    LET Bindings == {Binding(k, o) : k \in PropKeys, o \in Objs}
    IN  {q \in SeqsOf(Bindings, 0, MaxProps) :
            \A i, j \in 1..Len(q) : i # j => q[i].key.value # q[j].key.value}

\* Operands: two unordered containers of one kind.
InitUnordered ==
    /\ \/ /\ ty = THashSet(TStripped(TIndexedObject))
          /\ a \in InjSeqsOf(UItems, 0, MaxLen)
          /\ b \in InjSeqsOf(UItems, 0, MaxLen)
       \/ /\ ty = TUnordered(TStripped(TIndexedObject))
          /\ a \in SeqsOf(UItems, 0, MaxLen)
          /\ b \in SeqsOf(UItems, 0, MaxLen)
       \/ /\ ty = TProperties
          /\ a \in MapsOf(PropObjs)
          /\ b \in MapsOf(PropObjs)
       \/ /\ ty = TReverseProperties
          /\ a \in MapsOf(RevNodes)
          /\ b \in MapsOf(RevNodes)
    /\ f \in Renamings
    /\ res = FALSE
    /\ eq_pc = "call"
    /\ IdleExcept("eq")

SpecUnordered == InitUnordered /\ [][NextEq]_vars

\* Nodes that vary in every field mapped_eq could look at.
B0 == Valid(Blank("_:b0"))
B1 == Valid(Blank("_:b1"))
P == Valid(Iri("http://ex/p"))
IdEntry(id) == Some(Entry(id, "m0", "m0"))
TypesEntry(ts) == Some(Entry([i \in 1..Len(ts) |-> Meta(ts[i], "m0")], "m0", "m0"))
SetEntry(items) == Some(Entry(items, "m0", "m0"))
OneBinding(k, o) == <<Binding(Meta(k, "m0"), <<o>>)>>
NodeIdChoices == {None, IdEntry(B0), IdEntry(B1)}
NodeTypesChoices == {None, TypesEntry(<<P>>), TypesEntry(<<B0>>)}
NodePropsChoices == {<<>>, OneBinding(P, ValueItem("a")), OneBinding(B0, ValueItem("a"))}
NodeReverseChoices == {None, SetEntry(OneBinding(P, RevItem(B0)))}
NodeGraphChoices == {None, SetEntry(<<NodeItem(B0)>>)}
NodeIncludedChoices == {None, SetEntry(<<RevItem(B1)>>)}
Nodes ==
    {Node(id, types, graph, included, props, rev) :
        id \in NodeIdChoices, types \in NodeTypesChoices, graph \in NodeGraphChoices,
        included \in NodeIncludedChoices, props \in NodePropsChoices,
        rev \in NodeReverseChoices}
IndexEntry(k) == Some(Entry(k, "m0", "m0"))
Objects ==
    {Item(ObjNode(n)) : n \in Nodes}
    \cup {ValueItem("a"), ValueItem("b")}
    \cup {Stripped(Meta(Indexed(IndexEntry("k"), ObjValue(Value("a", "m0"))), "m0"))}
    \cup {Item(ObjList(l)) : l \in {List(<<>>, "m0", "m0"),
                                    List(<<ValueItem("a").stripped>>, "m0", "m0"),
                                    List(<<NodeItem(B0).stripped>>, "m0", "m0")}}
TypedNodeItem(id, ts) == Item(ObjNode(Node(IdEntry(id), TypesEntry(ts), None, None, <<>>, None)))
DocItems == {ValueItem("a"), NodeItem(B0), NodeItem(B1),
             TypedNodeItem(B0, <<P>>), TypedNodeItem(P, <<B0>>)}
MaxDoc == 2      \* most items of a drawn expanded document
Documents == InjSeqsOf(DocItems, 0, MaxDoc)

\* Operands: two indexed objects, or two expanded documents.
InitObject ==
    /\ \/ /\ ty = TStripped(TIndexedObject)
          /\ a \in Objects
          /\ b \in Objects
       \/ /\ ty = TExpandedDocument
          /\ a \in Documents
          /\ b \in Documents
    /\ f \in Renamings
    /\ res = FALSE
    /\ eq_pc = "call"
    /\ IdleExcept("eq")

SpecObject == InitObject /\ [][NextEq]_vars


(***************************************************************************)
(* Two documents that differ in one occurrence of a blank-node label.      *)
(* RelabelOne(T, x) is the set of values obtained from x by replacing one  *)
(* occurrence of a blank-node label by another label: in a node id, a      *)
(* type, a property key, a reverse-property key, or below in a graph, an   *)
(* included node, a property object or a list item.                        *)
(***************************************************************************)
RemoveAt(q, i) == SubSeq(q, 1, i - 1) \o SubSeq(q, i + 1, Len(q))
\* Item i of a set becomes y: the set shrinks when y is already a member.
SetReplace(q, i, y) ==
    IF \E j \in 1..Len(q) : j # i /\ q[j] = y
    THEN RemoveAt(q, i)
    ELSE [q EXCEPT ![i] = y]
\* The key of binding i becomes k: two bindings of one key are merged.
MapRekey(q, i, k) ==
    IF \E j \in 1..Len(q) : j # i /\ q[j].key.value = k.value
    THEN LET j == CHOOSE j \in 1..Len(q) : j # i /\ q[j].key.value = k.value
         IN  RemoveAt([q EXCEPT ![j].objects = q[j].objects \o q[i].objects], i)
    ELSE [q EXCEPT ![i].key = k]

RECURSIVE RelabelOne(_, _)
RelabelNode(n) ==
    {[n EXCEPT !.id = y] : y \in RelabelOne(TNodeId, n.id)}
    \cup {[n EXCEPT !.types = y] : y \in RelabelOne(TNodeTypes, n.types)}
    \cup {[n EXCEPT !.graph = y] : y \in RelabelOne(TNodeGraph, n.graph)}
    \cup {[n EXCEPT !.included = y] : y \in RelabelOne(TNodeIncluded, n.included)}
    \cup {[n EXCEPT !.properties = y] : y \in RelabelOne(TProperties, n.properties)}
    \cup {[n EXCEPT !.reverse_properties = y] :
             y \in RelabelOne(TNodeReverse, n.reverse_properties)}
RelabelObject(o) ==
    CASE o.tag = "Value" -> {}
      [] o.tag = "Node" -> {ObjNode(y) : y \in RelabelNode(o.node)}
      [] o.tag = "List" -> {ObjList([entry |-> y]) : y \in RelabelOne(TListEntry, o.list.entry)}
RelabelOne(T, x) ==
    CASE T[1] = "ValidId" ->
             IF x.tag = "Blank" THEN {Blank(l) : l \in BlankIds \ {x.name}} ELSE {}
      [] T[1] = "Id" ->
             IF x.tag = "Valid" THEN {Valid(y) : y \in RelabelOne(TValidId, x.id)} ELSE {}
      [] T[1] = "Option" ->
             IF Len(x) = 0 THEN {} ELSE {Some(y) : y \in RelabelOne(T[2], x[1])}
      [] T[1] = "Meta" -> {[x EXCEPT !.value = y] : y \in RelabelOne(T[2], x.value)}
      [] T[1] = "Stripped" -> {Stripped(y) : y \in RelabelOne(T[2], x.stripped)}
      [] T[1] = "Entry" ->
             {[x EXCEPT !.value.value = y] : y \in RelabelOne(T[2], x.value.value)}
      [] T[1] = "Indexed" -> {[x EXCEPT !.inner = y] : y \in RelabelOne(T[2], x.inner)}
      [] T[1] \in {"Vec", "Slice", "Unordered"} ->
             UNION {{[x EXCEPT ![i] = y] : y \in RelabelOne(T[2], x[i])} : i \in 1..Len(x)}
      [] T[1] = "HashSet" ->
             UNION {{SetReplace(x, i, y) : y \in RelabelOne(T[2], x[i])} : i \in 1..Len(x)}
      [] T[1] = "Object" -> RelabelObject(x)
      [] T[1] = "Node" -> RelabelNode(x)
      [] T[1] \in {"Properties", "ReverseProperties"} ->
             UNION {{MapRekey(x, i, k) : k \in RelabelOne(TMeta(TId), x[i].key)}
                    \cup {[x EXCEPT ![i].objects = o] :
                             o \in RelabelOne(TBindingObjects(T), x[i].objects)} :
                    i \in 1..Len(x)}

\* Nodes with the label _:b0 at every place a label can occur.
IsoNodes ==
    {Node(id, types, graph, included, props, rev) :
        id \in {None, IdEntry(B0)},
        types \in {None, TypesEntry(<<B0>>)},
        graph \in {None, SetEntry(<<NodeItem(B0)>>)},
        included \in {None, SetEntry(<<RevItem(B0)>>)},
        props \in {<<>>, OneBinding(B0, NodeItem(B0))},
        rev \in {None, SetEntry(OneBinding(B0, RevItem(B0)))}}
IsoItems ==
    {Item(ObjNode(n)) : n \in IsoNodes}
    \cup {Item(ObjList(List(<<NodeItem(B0).stripped>>, "m0", "m0"))), ValueItem("a")}
IsoDocuments == {<<x>> : x \in IsoItems} \cup InjSeqsOf(DocItems, 2, MaxDoc)

\* Operands: a document and the same document with one label replaced,
\* compared with the identity renaming.
InitIsolation ==
    /\ ty = TExpandedDocument
    /\ a \in IsoDocuments
    /\ b \in RelabelOne(ty, a)
    /\ f = Identity
    /\ res = FALSE
    /\ eq_pc = "call"
    /\ IdleExcept("eq")

SpecIsolation == InitIsolation /\ [][NextEq]_vars


(***************************************************************************)
(* Operands that carry different metadata in their Meta, Stripped and      *)
(* Entry wrappers.                                                         *)
(***************************************************************************)
MetaValues == {ObjValue(Value(l, m)) : l \in {"a", "b"}, m \in MetaData}
MetaIdEntries ==
    {None, IdEntry(B1)} \cup {Some(Entry(B0, km, m)) : km \in MetaData, m \in MetaData}
MetaProps ==
    {<<>>} \cup {<<Binding(Meta(B0, m), <<ValueItem("a")>>)>> : m \in MetaData}
MetaNodes ==
    {ObjNode(Node(id, None, None, None, props, None)) :
        id \in MetaIdEntries, props \in MetaProps}
MetaLists ==
    {ObjList(List(<<Meta(Indexed(None, ObjValue(Value("a", "m0"))), m)>>, km, km)) :
        m \in MetaData, km \in MetaData}
MetaIndexes == {None} \cup {Some(Entry("k", m, m)) : m \in MetaData}
MetaItems ==
    {Stripped(Meta(Indexed(i, o), m)) :
        i \in MetaIndexes, o \in MetaValues \cup MetaNodes \cup MetaLists, m \in MetaData}

\* Operands: two indexed objects with metadata.
InitMeta ==
    /\ ty = TStripped(TIndexedObject)
    /\ a \in MetaItems
    /\ b \in MetaItems
    /\ f \in Renamings
    /\ res = FALSE
    /\ eq_pc = "call"
    /\ IdleExcept("eq")

SpecMeta == InitMeta /\ [][NextEq]_vars


(***************************************************************************)
(* NoLoader.                                                               *)
(***************************************************************************)
MaxLoads == 4    \* most requests made to the loader in one behaviour
LoadIris == {"http://ex/ctx", "http://ex/doc", "http://ex/other"}

\* struct NoLoader: a unit struct, it has no field.
NoLoader == "NoLoader"
\* struct CannotLoad<I>(I)
CannotLoad(url) == [tag |-> "CannotLoad", url |-> url]
Ok(v) == [tag |-> "Ok", value |-> v]
Err(e) == [tag |-> "Err", error |-> e]

\* A loader that answers with the IRI of the first request it ever got.
LoadWith_FirstIri(self, url) ==
    [self |-> self,
     result |-> Err(CannotLoad(IF Len(loads) = 0 THEN url ELSE loads[1].url))]

\* NoLoader::load_with: the loader after the call and the loading result.
LoadWith(self, url) == [self |-> self, result |-> Err(CannotLoad(url))]

\* One request loader.load_with(vocabulary, url).
Load ==
    /\ Len(loads) < MaxLoads
    /\ \E url \in LoadIris :
           LET r == LoadWith(loader, url)
           IN  /\ loader' = r.self
               /\ loads' = Append(loads, [url |-> url, result |-> r.result])
    /\ FrameExcept("loader")

InitLoader ==
    /\ loader = NoLoader
    /\ loads = <<>>
    /\ IdleExcept("loader")

NextLoader == Load
SpecLoader == InitLoader /\ [][NextLoader]_vars


(***************************************************************************)
(* Document::compact_with.  JSON values are kept as far as compact_with    *)
(* looks at them: their kind, the length of an array, the entries of an    *)
(* object (a set of <<key, value>> pairs with pairwise different keys).    *)
(***************************************************************************)
MaxItems == 2    \* most items of an expanded document or of a compacted array

JNull == [kind |-> "Null"]
JBoolean == [kind |-> "Boolean"]
JNumber == [kind |-> "Number"]
JString == [kind |-> "String"]
JArray(n) == [kind |-> "Array", len |-> n]
JObject(m) == [kind |-> "Object", map |-> m]
Panic(msg) == [tag |-> "Panic", msg |-> msg]
Unset == [tag |-> "None", kind |-> "None"]

Keys(m) == {e[1] : e \in m}
\* K::Object::insert: the entry replaces an entry of the same key.
MapInsert(m, k, v) == {e \in m : e[1] # k} \cup {<<k, v>>}
\* K::is_null
IsNull(j) == j.kind = "Null"
\* K::is_empty_array_or_object
IsEmptyArrayOrObject(j) ==
    \/ j.kind = "Array" /\ j.len = 0
    \/ j.kind = "Object" /\ j.map = {}

\* What the callees of compact_with can return.
ContextJsons ==
    {JNull, JString, JArray(0), JArray(1), JObject({}), JObject({<<"name", JString>>})}
GraphKeys ==
    {Ok(Some("@graph")), Ok(Some("graph")), Ok(None), Err("IriConfusedWithPrefix")}
ExpandResults ==
    {Ok(n) : n \in 0..MaxItems}
    \cup {Err(e) : e \in {"LoadingRemoteContextFailed", "InvalidIdValue"}}
CompactedMaps ==
    {{}, {<<"@id", JString>>}, {<<"@id", JString>>, <<"name", JString>>},
     {<<"@graph", JArray(1)>>}}
CompactResults ==
    {Ok(JArray(n)) : n \in 0..MaxItems}
    \cup {Ok(JObject(m)) : m \in CompactedMaps}
    \cup {Ok(JNull), Ok(JBoolean), Ok(JNumber), Ok(JString)}
    \cup {Err(e) : e \in {"CompactionToListOfLists", "IriConfusedWithPrefix"}}

\* A match that wraps every array, the empty one too.
MatchCompacted_WrapEmpty(c, key) ==
    CASE c.kind = "Array" ->
             CASE key.tag = "Err" -> key
               [] key.tag = "Ok" /\ Len(key.value) = 0 ->
                      Panic("called Option::unwrap() on a None value")
               [] OTHER -> Ok({<<key.value[1], c>>})
      [] c.kind = "Object" -> Ok(c.map)
      [] OTHER -> Panic("invalid compact document")

\* A match that swallows the error of compact_iri and falls back on the
\* keyword itself.
MatchCompacted_SwallowKeyErr(c, key) ==
    CASE c.kind = "Array" ->
             IF c.len # 0
             THEN CASE key.tag = "Err" -> Ok({<<"@graph", c>>})
                    [] key.tag = "Ok" /\ Len(key.value) = 0 ->
                           Panic("called Option::unwrap() on a None value")
                    [] OTHER -> Ok({<<key.value[1], c>>})
             ELSE Ok({})
      [] c.kind = "Object" -> Ok(c.map)
      [] OTHER -> Panic("invalid compact document")

\* The match on compacted.into_parts(): the object map to go on with, or
\* the error of compact_iri, or a panic.
MatchCompacted(c, key) ==
    CASE c.kind = "Array" ->
             IF c.len # 0
             THEN CASE key.tag = "Err" -> key
                    [] key.tag = "Ok" /\ Len(key.value) = 0 ->
                           Panic("called Option::unwrap() on a None value")
                    [] OTHER -> Ok({<<key.value[1], c>>})
             ELSE Ok({})
      [] c.kind = "Object" -> Ok(c.map)
      [] OTHER -> Panic("invalid compact document")

\* A test that forgets the emptiness of the map.
ShouldInsertContext_AnyMap(m, ctx) == ~IsNull(ctx) /\ ~IsEmptyArrayOrObject(ctx)

\* The condition under which the @context entry is inserted.
ShouldInsertContext(m, ctx) == m # {} /\ ~IsNull(ctx) /\ ~IsEmptyArrayOrObject(ctx)

\* self.expand_with(...).await?
Expand ==
    /\ c_pc = "start"
    /\ \E r \in ExpandResults :
           /\ expanded' = r
           /\ IF r.tag = "Err"
              THEN result' = r /\ c_pc' = "done"
              ELSE result' = result /\ c_pc' = "expanded"
    /\ UNCHANGED <<json_context, compact_arrays, graph_key, compacted, map>>
    /\ FrameExcept("compact")

\* The single item of the expanded document is compacted: item.compact_with(...).await?
CompactItem ==
    /\ c_pc = "expanded"
    /\ expanded.value = 1 /\ compact_arrays
    /\ \E r \in CompactResults :
           IF r.tag = "Err"
           THEN result' = r /\ c_pc' = "done" /\ compacted' = compacted
           ELSE result' = result /\ c_pc' = "compacted" /\ compacted' = r.value
    /\ UNCHANGED <<json_context, compact_arrays, graph_key, expanded, map>>
    /\ FrameExcept("compact")

\* The whole expanded document is compacted: expanded.compact_with(...).await?
CompactSet ==
    /\ c_pc = "expanded"
    /\ ~(expanded.value = 1 /\ compact_arrays)
    /\ \E r \in CompactResults :
           IF r.tag = "Err"
           THEN result' = r /\ c_pc' = "done" /\ compacted' = compacted
           ELSE result' = result /\ c_pc' = "compacted" /\ compacted' = r.value
    /\ UNCHANGED <<json_context, compact_arrays, graph_key, expanded, map>>
    /\ FrameExcept("compact")

\* let (mut map, metadata) = match compacted.into_parts() { ... };
Wrap ==
    /\ c_pc = "compacted"
    /\ LET r == MatchCompacted(compacted, graph_key)
       IN  IF r.tag = "Ok"
           THEN map' = r.value /\ result' = result /\ c_pc' = "wrapped"
           ELSE map' = map /\ result' = r /\ c_pc' = "done"
    /\ UNCHANGED <<json_context, compact_arrays, graph_key, expanded, compacted>>
    /\ FrameExcept("compact")

\* The insertion of @context and the return of Ok(K::object(map, metadata)).
InsertContext ==
    /\ c_pc = "wrapped"
    /\ map' = IF ShouldInsertContext(map, json_context)
              THEN MapInsert(map, "@context", json_context)
              ELSE map
    /\ result' = Ok(JObject(map'))
    /\ c_pc' = "done"
    /\ UNCHANGED <<json_context, compact_arrays, graph_key, expanded, compacted>>
    /\ FrameExcept("compact")

InitCompact ==
    /\ json_context \in ContextJsons
    /\ compact_arrays \in BOOLEAN
    /\ graph_key \in GraphKeys
    /\ expanded = Unset
    /\ compacted = Unset
    /\ map = {}
    /\ result = Unset
    /\ c_pc = "start"
    /\ IdleExcept("compact")

NextCompact == Expand \/ CompactItem \/ CompactSet \/ Wrap \/ InsertContext
SpecCompact == InitCompact /\ [][NextCompact]_vars


(***************************************************************************)
(* Three calls in a row: a.mapped_eq(b, f), b.mapped_eq(c, g) and          *)
(* a.mapped_eq(c, |x| g(f(x))).                                            *)
(***************************************************************************)
MaxSet == 2    \* most items of a drawn set, most bindings of a drawn map

\* The closure |x| g(f(x)).
Compose(g, h) == [l \in DOMAIN h |-> g[h[l]]]

RelAB ==
    /\ rel_pc = "ab"
    /\ rel_res' = [rel_res EXCEPT !.ab = MappedEq(rel.ty, rel.a, rel.b, rel.f)]
    /\ rel_pc' = "bc"
    /\ UNCHANGED rel
    /\ FrameExcept("rel")

RelBC ==
    /\ rel_pc = "bc"
    /\ rel_res' = [rel_res EXCEPT !.bc = MappedEq(rel.ty, rel.b, rel.c, rel.g)]
    /\ rel_pc' = "ac"
    /\ UNCHANGED rel
    /\ FrameExcept("rel")

RelAC ==
    /\ rel_pc = "ac"
    /\ rel_res' = [rel_res EXCEPT
                      !.ac = MappedEq(rel.ty, rel.a, rel.c, Compose(rel.g, rel.f))]
    /\ rel_pc' = "done"
    /\ UNCHANGED rel
    /\ FrameExcept("rel")

NextRel == RelAB \/ RelBC \/ RelAC

\* Operands over three blank labels, and the bijections on the labels.
Labels3 == BlankIds \cup {"_:b2"}
Bijections3 == {h \in [Labels3 -> Labels3] : \A k, l \in Labels3 : h[k] = h[l] => k = l}
InverseOf(h) == [l \in Labels3 |-> CHOOSE k \in Labels3 : h[k] = l]
B2 == Valid(Blank("_:b2"))
SymIds == {B0, B1, B2, P, Invalid("%")}
SymItems ==
    {NodeItem(B0), NodeItem(B1), NodeItem(B2), TypedNodeItem(B0, <<B2>>),
     Item(ObjNode(Node(IdEntry(B2), None, None, None, OneBinding(B0, NodeItem(B1)), None))),
     Item(ObjList(List(<<NodeItem(B0).stripped, NodeItem(B2).stripped>>, "m0", "m0")))}
SymDocuments == InjSeqsOf(SymItems, 0, MaxSet)

\* a.mapped_eq(b, f), then b.mapped_eq(a, g) for the inverse g of f, then
\* a.mapped_eq(a, identity).
InitSymmetry ==
    /\ \E t \in {TId, TStripped(TIndexedObject), TExpandedDocument} :
       \E x, y \in CASE t = TId -> SymIds
                     [] t = TExpandedDocument -> SymDocuments
                     [] OTHER -> SymItems :
       \E h \in Bijections3 :
           rel = [ty |-> t, a |-> x, b |-> y, c |-> x, f |-> h, g |-> InverseOf(h)]
    /\ rel_res = [ab |-> FALSE, bc |-> FALSE, ac |-> FALSE]
    /\ rel_pc = "ab"
    /\ IdleExcept("rel")

SpecSymmetry == InitSymmetry /\ [][NextRel]_vars

\* Operands over the two blank labels, for every pair of renamings.
ChainItems == {ValueItem("a"), NodeItem(B0), NodeItem(B1)}
ChainDocuments == InjSeqsOf(ChainItems, 0, MaxSet)
ChainMaps ==
    LET Bindings == {Binding(Meta(k, "m0"), o) :
                        k \in {B0, B1},
                        o \in {<<ValueItem("a")>>, <<NodeItem(B0), NodeItem(B1)>>}}
    IN  {q \in SeqsOf(Bindings, 0, MaxSet) :
            \A i, j \in 1..Len(q) : i # j => q[i].key.value # q[j].key.value}

InitCompose ==
    /\ \E t \in {TId, TProperties, TExpandedDocument} :
       \E x, y, z \in CASE t = TId -> Ids
                        [] t = TProperties -> ChainMaps
                        [] OTHER -> ChainDocuments :
       \E h, k \in Renamings :
           rel = [ty |-> t, a |-> x, b |-> y, c |-> z, f |-> h, g |-> k]
    /\ rel_res = [ab |-> FALSE, bc |-> FALSE, ac |-> FALSE]
    /\ rel_pc = "ab"
    /\ IdleExcept("rel")

SpecCompose == InitCompose /\ [][NextRel]_vars

(***************************************************************************)
(* Documents: a JSON value is a document without base URL, and a           *)
(* RemoteDocument wraps a document together with a base URL.               *)
(***************************************************************************)
MaxDepth == 2    \* most RemoteDocument wrappers around a JSON value
JsonValues == {"{}", "{@id: a}", "{@context: http://ex/ctx}"}
DocUrls == {"http://ex/doc", "http://ex/other"}
Loaders == {NoLoader, "FsLoader"}

Json(j) == [kind |-> "Json", json |-> j]
RemoteDocument(doc, base_url) == [kind |-> "Remote", base_url |-> base_url, doc |-> doc]
\* The value left behind by a method that takes `self`.
Moved == [kind |-> "Moved"]
NoDocument == [kind |-> "None"]

\* A constructor that puts a fixed URL in place of the one it is given.
New_FixedUrl(doc, base_url) == RemoteDocument(doc, "http://ex/doc")

\* RemoteDocument::new, into_document, into_parts, deref, and an assignment
\* through deref_mut.
New(doc, base_url) == RemoteDocument(doc, base_url)
IntoDocument(self) == self.doc
IntoParts(self) == <<self.doc, self.base_url>>
Deref(self) == self.doc
DerefMut(self, d) == [self EXCEPT !.doc = d]

\* Document::base_url of the two implementations.
BaseUrl(self) == IF self.kind = "Json" THEN None ELSE Some(self.base_url)

\* C::new(base_url), a context with definitions, and the expansion options.
ContextNew(base_url) == [base_iri |-> base_url, definitions |-> {}]
Contexts ==
    {ContextNew(u) : u \in {None} \cup {Some(x) : x \in DocUrls}}
    \cup {[base_iri |-> None, definitions |-> {"name"}]}
DefaultOptions == "Options::default()"
ExpansionOptions == {DefaultOptions, "Options { strict: true }"}

\* expansion::expand: the expanded document is a function of the five
\* arguments; a context given by reference cannot be loaded by NoLoader.
ExpansionExpand(context, json, base_url, ld, options) ==
    IF json = "{@context: http://ex/ctx}" /\ ld = NoLoader
    THEN Err("LoadingDocumentFailed")
    ELSE Ok([json |-> json, base_url |-> base_url, context |-> context,
             options |-> options])

\* Document::expand_with: the JSON value expands itself, the remote
\* document hands the call on to its contents.
RECURSIVE ExpandWith(_, _, _, _, _)
ExpandWith(self, base_url, context, ld, options) ==
    IF self.kind = "Json"
    THEN ExpansionExpand(context, self.json, base_url, ld, options)
    ELSE ExpandWith(self.doc, base_url, context, ld, options)

\* An expansion that never looks at the base URL of the document.
Expand_NoBase(self, ld) ==
    ExpandWith(self, None, ContextNew(None), ld, DefaultOptions)

\* Document::expand
Expand_(self, ld) ==
    LET context == ContextNew(BaseUrl(self))
    IN  ExpandWith(self, BaseUrl(self), context, ld, DefaultOptions)

RECURSIVE Depth(_)
Depth(d) == IF d.kind = "Remote" THEN 1 + Depth(d.doc) ELSE 0
RECURSIVE DocsOfDepth(_)
DocsOfDepth(n) ==
    IF n = 0 THEN {Json(j) : j \in JsonValues}
    ELSE {RemoteDocument(d, u) : d \in DocsOfDepth(n - 1), u \in DocUrls}

IsDocument == document.kind \in {"Json", "Remote"}

DocNew ==
    /\ \E d \in DocsOfDepth(0) \cup {x \in {document} : IsDocument /\ Depth(x) < MaxDepth},
          u \in DocUrls :
           /\ document' = New(d, u)
           /\ new_doc' = d
           /\ new_url' = u
           /\ call' = [op |-> "new"]
    /\ FrameExcept("doc")

DocBaseUrl ==
    /\ IsDocument
    /\ call' = [op |-> "base_url", ret |-> BaseUrl(document)]
    /\ UNCHANGED <<document, new_doc, new_url>>
    /\ FrameExcept("doc")

DocDeref ==
    /\ document.kind = "Remote"
    /\ call' = [op |-> "deref", ret |-> Deref(document)]
    /\ UNCHANGED <<document, new_doc, new_url>>
    /\ FrameExcept("doc")

\* *remote = d, for a d of the type of the contents
DocDerefMut ==
    /\ document.kind = "Remote"
    /\ \E d \in DocsOfDepth(Depth(document.doc)) :
           /\ document' = DerefMut(document, d)
           /\ new_doc' = d
           /\ call' = [op |-> "deref_mut"]
    /\ UNCHANGED new_url
    /\ FrameExcept("doc")

DocIntoDocument ==
    /\ document.kind = "Remote"
    /\ call' = [op |-> "into_document", ret |-> IntoDocument(document)]
    /\ document' = Moved
    /\ UNCHANGED <<new_doc, new_url>>
    /\ FrameExcept("doc")

DocIntoParts ==
    /\ document.kind = "Remote"
    /\ call' = [op |-> "into_parts", ret |-> IntoParts(document)]
    /\ document' = Moved
    /\ UNCHANGED <<new_doc, new_url>>
    /\ FrameExcept("doc")

DocExpand ==
    /\ IsDocument
    /\ \E ld \in Loaders :
           call' = [op |-> "expand", loader |-> ld, ret |-> Expand_(document, ld)]
    /\ UNCHANGED <<document, new_doc, new_url>>
    /\ FrameExcept("doc")

DocExpandWith ==
    /\ IsDocument
    /\ \E base_url \in {None} \cup {Some(u) : u \in DocUrls}, context \in Contexts,
          ld \in Loaders, options \in ExpansionOptions :
           call' = [op |-> "expand_with", base_url |-> base_url, context |-> context,
                    loader |-> ld, options |-> options,
                    ret |-> ExpandWith(document, base_url, context, ld, options)]
    /\ UNCHANGED <<document, new_doc, new_url>>
    /\ FrameExcept("doc")

InitDocument ==
    /\ document \in DocsOfDepth(0)
    /\ new_doc = NoDocument
    /\ new_url = ""
    /\ call = [op |-> "none"]
    /\ IdleExcept("doc")

NextDocument ==
    \/ DocNew \/ DocBaseUrl \/ DocDeref \/ DocDerefMut
    \/ DocIntoDocument \/ DocIntoParts \/ DocExpand \/ DocExpandWith
SpecDocument == InitDocument /\ [][NextDocument]_vars


(***************************************************************************)
(* Compact IRIs.  A string is the sequence of its characters; a position   *)
(* of Rust is one less than the index of the sequence.                     *)
(***************************************************************************)
MaxStr == 4    \* most characters of a drawn string
Chars == {"a", ":", "/"}
Strings == UNION {[1..n -> Chars] : n \in 0..MaxStr}

CompactIri(s) == [type |-> "CompactIri", str |-> s]
CompactIriBuf(s) == [type |-> "CompactIriBuf", str |-> s]
\* What a call gives back when it does not panic.
Returns(v) == [tag |-> "Returns", value |-> v]

\* str::find of a character
Find(s, c) ==
    LET at == {i \in 1..Len(s) : s[i] = c}
    IN  IF at = {} THEN None ELSE Some(Min(at) - 1)
\* &s[from..to], with to excluded
Slice(s, from, to) == SubSeq(s, from + 1, to)

\* CompactIri::new_unchecked, as_str, to_owned; CompactIriBuf::as_compact_iri
NewUnchecked(s) == CompactIri(s)
AsStr(self) == self.str
ToOwned(self) == CompactIriBuf(self.str)
AsCompactIri(self) == NewUnchecked(self.str)

\* A prefix cut at the last colon.
Prefix_LastColon(self) ==
    LET at == {k \in 1..Len(self.str) : self.str[k] = ":"}
        i == IF at = {} THEN None ELSE Some(-Min({-k : k \in at}) - 1)
    IN  IF i = None THEN Panic("called Option::unwrap() on a None value")
        ELSE Returns(Slice(self.str, 0, i[1]))

\* CompactIri::prefix
Prefix(self) ==
    LET i == Find(self.str, ":")
    IN  IF i = None THEN Panic("called Option::unwrap() on a None value")
        ELSE Returns(Slice(self.str, 0, i[1]))

\* CompactIri::suffix
Suffix(self) ==
    LET i == Find(self.str, ":")
    IN  IF i = None THEN Panic("called Option::unwrap() on a None value")
        ELSE Returns(Slice(self.str, i[1] + 1, Len(self.str)))

\* unsafe { CompactIri::new_unchecked(s) }, for any string
CiriNewUnchecked ==
    /\ \E s \in Strings : ciri' = NewUnchecked(s)
    /\ ciri_call' = [op |-> "new_unchecked"]
    /\ FrameExcept("ciri")

CiriToOwned ==
    /\ ciri.type = "CompactIri"
    /\ ciri' = ToOwned(ciri)
    /\ ciri_call' = [op |-> "to_owned"]
    /\ FrameExcept("ciri")

\* as_compact_iri, and so the Deref and Borrow of a CompactIriBuf
CiriAsCompactIri ==
    /\ ciri.type = "CompactIriBuf"
    /\ ciri' = AsCompactIri(ciri)
    /\ ciri_call' = [op |-> "as_compact_iri"]
    /\ FrameExcept("ciri")

\* prefix and suffix, on a CompactIri or through the Deref of a CompactIriBuf
CiriPrefix ==
    /\ ciri.type \in {"CompactIri", "CompactIriBuf"}
    /\ ciri_call' = [op |-> "prefix", ret |-> Prefix(ciri)]
    /\ UNCHANGED ciri
    /\ FrameExcept("ciri")

CiriSuffix ==
    /\ ciri.type \in {"CompactIri", "CompactIriBuf"}
    /\ ciri_call' = [op |-> "suffix", ret |-> Suffix(ciri)]
    /\ UNCHANGED ciri
    /\ FrameExcept("ciri")

CiriAsStr ==
    /\ ciri.type \in {"CompactIri", "CompactIriBuf"}
    /\ ciri_call' = [op |-> "as_str", ret |-> Returns(AsStr(ciri))]
    /\ UNCHANGED ciri
    /\ FrameExcept("ciri")

InitCiri ==
    /\ ciri = [type |-> "None", str |-> <<>>]
    /\ ciri_call = [op |-> "none"]
    /\ IdleExcept("ciri")

NextCiri ==
    \/ CiriNewUnchecked \/ CiriToOwned \/ CiriAsCompactIri
    \/ CiriPrefix \/ CiriSuffix \/ CiriAsStr
SpecCiri == InitCiri /\ [][NextCiri]_vars


(***************************************************************************)
(* The printer of context values.  The two passes, pre_compute_size and    *)
(* fmt_with_size, are the sequences of the arrays and objects they meet:   *)
(* the first pushes one Size record for each, the second reads one.  A     *)
(* node of the value is the path of entry positions that leads to it.      *)
(***************************************************************************)
MaxBindings == 2    \* most term definitions of a drawn context definition

\* context::Value, Context, definition::Type
One(context) == [tag |-> "One", context |-> context]
Many(contexts) == [tag |-> "Many", contexts |-> contexts]
ContextNull == [tag |-> "Null"]
ContextIriRef == [tag |-> "IriRef"]
ContextDefinition(base, type, bindings) ==
    [tag |-> "Definition", base |-> base, type |-> type, bindings |-> bindings]
DefinitionType(protected) == [protected |-> protected]
\* Nullable<TermDefinition>, term_definition::Expanded, Nullable<Container>
TermNull == [tag |-> "Null"]
TermSimple == [tag |-> "Simple"]
TermExpanded(context, container) ==
    [tag |-> "Expanded", context |-> context, container |-> container]
ContainerNull == [tag |-> "Null"]
ContainerOne == [tag |-> "One"]
ContainerMany(n) == [tag |-> "Many", len |-> n]

\* The entries of the three kinds of objects, in the order of iter().
EntryRef(tag, v) == [tag |-> tag, value |-> v]
DefinitionIter(d) ==
    (IF d.base THEN <<EntryRef("Base", "iri")>> ELSE <<>>)
    \o (IF Len(d.type) = 1 THEN <<EntryRef("Type", d.type[1])>> ELSE <<>>)
    \o [i \in 1..Len(d.bindings) |-> EntryRef("Definition", d.bindings[i])]
TypeIter(t) ==
    <<EntryRef("Container", "@set")>>
    \o (IF t.protected THEN <<EntryRef("Protected", "true")>> ELSE <<>>)
ExpandedIter(e) ==
    <<EntryRef("Id", "iri")>>
    \o (IF Len(e.context) = 1 THEN <<EntryRef("Context", e.context[1])>> ELSE <<>>)
    \o (IF Len(e.container) = 1 THEN <<EntryRef("Container", e.container[1])>> ELSE <<>>)

\* A Size record, with the node that pushed it; an array or object met by
\* the print pass.
SizeOf(path, kind) == [node |-> path, kind |-> kind]

RECURSIVE PreComputeSize(_, _, _)
RECURSIVE PreComputeItems(_, _, _, _)
\* The records pushed for the items from the i-th on.
PreComputeItems(T, items, path, i) ==
    IF i > Len(items) THEN <<>>
    ELSE PreComputeSize(T, items[i], Append(path, i))
         \o PreComputeItems(T, items, path, i + 1)
\* json_syntax::print::pre_compute_array_size, pre_compute_object_size
PreComputeArraySize(T, items, path) ==
    <<SizeOf(path, "Array")>> \o PreComputeItems(T, items, path, 1)
PreComputeObjectSize(T, entries, path) ==
    <<SizeOf(path, "Object")>> \o PreComputeItems(T, entries, path, 1)

ValuePreComputeSize(x, path) ==
    IF x.tag = "One" THEN PreComputeSize("Context", x.context, path)
    ELSE PreComputeArraySize("Context", x.contexts, path)
ContextPreComputeSize(x, path) ==
    IF x.tag = "Definition"
    THEN PreComputeObjectSize("definition::EntryValueRef", DefinitionIter(x), path)
    ELSE <<>>
DefinitionEntryPreComputeSize(x, path) ==
    CASE x.tag = "Type" -> PreComputeSize("definition::Type", x.value, path)
      [] x.tag = "Definition" ->
             PreComputeSize("Nullable<TermDefinition>", x.value, path)
      [] OTHER -> <<>>
DefinitionTypePreComputeSize(x, path) ==
    PreComputeObjectSize("definition::ContextTypeEntry", TypeIter(x), path)
ExpandedPreComputeSize(x, path) ==
    PreComputeObjectSize("term_definition::EntryRef", ExpandedIter(x), path)
TermDefinitionPreComputeSize(x, path) ==
    IF x.tag = "Expanded" THEN ExpandedPreComputeSize(x, path) ELSE <<>>
TermEntryPreComputeSize(x, path) ==
    CASE x.tag = "Context" -> PreComputeSize("Value", x.value, path)
      [] x.tag = "Container" -> PreComputeSize("Nullable<Container>", x.value, path)
      [] OTHER -> <<>>
ContainerPreComputeSize(x, path) ==
    IF x.tag = "Many"
    THEN PreComputeArraySize("ContainerKind", [i \in 1..x.len |-> "@set"], path)
    ELSE <<>>

\* x.pre_compute_size(options, sizes), for x of type T: the records pushed.
PreComputeSize(T, x, path) ==
    CASE T = "Value" -> ValuePreComputeSize(x, path)
      [] T = "Context" -> ContextPreComputeSize(x, path)
      [] T = "definition::EntryValueRef" -> DefinitionEntryPreComputeSize(x, path)
      [] T = "definition::Type" -> DefinitionTypePreComputeSize(x, path)
      [] T = "Nullable<TermDefinition>" -> TermDefinitionPreComputeSize(x, path)
      [] T = "term_definition::EntryRef" -> TermEntryPreComputeSize(x, path)
      [] T = "Nullable<Container>" -> ContainerPreComputeSize(x, path)
      [] OTHER -> <<>>


RECURSIVE FmtWithSize(_, _, _)
RECURSIVE PrintItems(_, _, _, _)
\* The arrays and objects met while printing the items from the i-th on.
PrintItems(T, items, path, i) ==
    IF i > Len(items) THEN <<>>
    ELSE FmtWithSize(T, items[i], Append(path, i))
         \o PrintItems(T, items, path, i + 1)
\* json_syntax::print::print_array, print_object: the record at *index is
\* read, *index moves on, and the items are printed.
PrintArray(T, items, path) ==
    <<SizeOf(path, "Array")>> \o PrintItems(T, items, path, 1)
PrintObject(T, entries, path) ==
    <<SizeOf(path, "Object")>> \o PrintItems(T, entries, path, 1)

ValueFmtWithSize(x, path) ==
    IF x.tag = "One" THEN FmtWithSize("Context", x.context, path)
    ELSE PrintArray("Context", x.contexts, path)
ContextFmtWithSize(x, path) ==
    IF x.tag = "Definition"
    THEN PrintObject("definition::EntryValueRef", DefinitionIter(x), path)
    ELSE <<>>
DefinitionEntryFmtWithSize(x, path) ==
    CASE x.tag = "Type" -> FmtWithSize("definition::Type", x.value, path)
      [] x.tag = "Definition" -> FmtWithSize("Nullable<TermDefinition>", x.value, path)
      [] OTHER -> <<>>
DefinitionTypeFmtWithSize(x, path) ==
    PrintObject("definition::ContextTypeEntry", TypeIter(x), path)
ExpandedFmtWithSize(x, path) ==
    PrintObject("term_definition::EntryRef", ExpandedIter(x), path)
TermDefinitionFmtWithSize(x, path) ==
    IF x.tag = "Expanded" THEN ExpandedFmtWithSize(x, path) ELSE <<>>
\* A print pass that prints a scoped context with fmt_with, as it does the
\* entries next to it: the scoped context is printed against a size vector
\* of its own and no record of this one is read.
TermEntryFmtWithSize_ContextFmtWith(x, path) ==
    CASE x.tag = "Container" -> FmtWithSize("Nullable<Container>", x.value, path)
      [] OTHER -> <<>>
TermEntryFmtWithSize(x, path) ==
    CASE x.tag = "Context" -> FmtWithSize("Value", x.value, path)
      [] x.tag = "Container" -> FmtWithSize("Nullable<Container>", x.value, path)
      [] OTHER -> <<>>
ContainerFmtWithSize(x, path) ==
    IF x.tag = "Many"
    THEN PrintArray("ContainerKind", [i \in 1..x.len |-> "@set"], path)
    ELSE <<>>

\* x.fmt_with_size(f, options, indent, sizes, index), for x of type T: the
\* arrays and objects that read a record, in the order they do.
FmtWithSize(T, x, path) ==
    CASE T = "Value" -> ValueFmtWithSize(x, path)
      [] T = "Context" -> ContextFmtWithSize(x, path)
      [] T = "definition::EntryValueRef" -> DefinitionEntryFmtWithSize(x, path)
      [] T = "definition::Type" -> DefinitionTypeFmtWithSize(x, path)
      [] T = "Nullable<TermDefinition>" -> TermDefinitionFmtWithSize(x, path)
      [] T = "term_definition::EntryRef" -> TermEntryFmtWithSize(x, path)
      [] T = "Nullable<Container>" -> ContainerFmtWithSize(x, path)
      [] OTHER -> <<>>

\* self.traverse().filter(|f| f.is_array() || f.is_object()).count()
RECURSIVE Traverse(_, _)
RECURSIVE TraverseAll(_, _, _)
TraverseAll(T, items, i) ==
    IF i > Len(items) THEN 0
    ELSE Traverse(T, items[i]) + TraverseAll(T, items, i + 1)
Traverse(T, x) ==
    CASE T = "Value" /\ x.tag = "One" -> Traverse("Context", x.context)
      [] T = "Value" /\ x.tag = "Many" -> 1 + TraverseAll("Context", x.contexts, 1)
      [] T = "Context" /\ x.tag = "Definition" ->
             1 + (IF Len(x.type) = 1 THEN 1 ELSE 0)
               + TraverseAll("TermDefinition", x.bindings, 1)
      [] T = "TermDefinition" /\ x.tag = "Expanded" ->
             1 + (IF Len(x.context) = 1 THEN Traverse("Value", x.context[1]) ELSE 0)
               + (IF Len(x.container) = 1 /\ x.container[1].tag = "Many" THEN 1 ELSE 0)
      [] OTHER -> 0

\* The context values drawn.  A scoped context is one of a few values, so
\* that the nesting stays finite.
Containers == {None, Some(ContainerNull), Some(ContainerOne), Some(ContainerMany(2))}
PlainTerms == {TermNull, TermSimple} \cup {TermExpanded(None, c) : c \in Containers}
ScopedValues ==
    {One(ContextNull),
     One(ContextDefinition(FALSE, None, <<TermExpanded(None, Some(ContainerMany(1)))>>)),
     Many(<<ContextIriRef, ContextDefinition(TRUE, Some(DefinitionType(TRUE)), <<>>)>>)}
Terms ==
    PlainTerms
    \cup {TermExpanded(Some(v), c) : v \in ScopedValues,
                                     c \in {None, Some(ContainerMany(2))}}
Definitions ==
    {ContextDefinition(base, type, bindings) :
        base \in BOOLEAN,
        type \in {None, Some(DefinitionType(FALSE))},
        bindings \in SeqsOf(Terms, 0, MaxBindings)}
ContextValues ==
    {One(c) : c \in {ContextNull, ContextIriRef} \cup Definitions}
    \cup {Many(cs) : cs \in SeqsOf({ContextNull} \cup
              {ContextDefinition(FALSE, None, <<t>>) :
                  t \in {TermSimple, TermExpanded(Some(One(ContextIriRef)), None),
                         TermExpanded(None, Some(ContainerMany(0)))}}, 0, 2)}

\* One array or object of the precompute pass: its record is pushed.
PrecomputeStep ==
    /\ p_pc = "precompute"
    /\ LET pushed == PreComputeSize("Value", context_value, <<>>)
       IN  /\ p_k < Len(pushed)
           /\ sizes' = Append(sizes, pushed[p_k + 1])
           /\ p_k' = p_k + 1
    /\ UNCHANGED <<context_value, index, emitted, p_pc>>
    /\ FrameExcept("print")

\* pre_compute_size returns: let mut index = 0; self.fmt_with_size(...)
PrecomputeEnd ==
    /\ p_pc = "precompute"
    /\ p_k = Len(PreComputeSize("Value", context_value, <<>>))
    /\ index' = 0
    /\ p_k' = 0
    /\ p_pc' = "print"
    /\ UNCHANGED <<context_value, sizes, emitted>>
    /\ FrameExcept("print")

\* One array or object of the print pass: let size = sizes[*index];
\* *index += 1; a read past the end of sizes panics.
PrintStep ==
    /\ p_pc = "print"
    /\ LET met == FmtWithSize("Value", context_value, <<>>)
       IN  /\ p_k < Len(met)
           /\ IF index < Len(sizes)
              THEN /\ emitted' = Append(emitted, [node |-> met[p_k + 1].node,
                                                  kind |-> met[p_k + 1].kind,
                                                  index |-> index,
                                                  size |-> sizes[index + 1]])
                   /\ index' = index + 1
                   /\ p_k' = p_k + 1
                   /\ p_pc' = p_pc
              ELSE /\ p_pc' = "panic"
                   /\ UNCHANGED <<emitted, index, p_k>>
    /\ UNCHANGED <<context_value, sizes>>
    /\ FrameExcept("print")

\* fmt_with_size returns.
PrintEnd ==
    /\ p_pc = "print"
    /\ p_k = Len(FmtWithSize("Value", context_value, <<>>))
    /\ p_pc' = "done"
    /\ UNCHANGED <<context_value, sizes, index, emitted, p_k>>
    /\ FrameExcept("print")

InitPrint ==
    /\ context_value \in ContextValues
    /\ sizes = <<>>
    /\ index = 0
    /\ emitted = <<>>
    /\ p_k = 0
    /\ p_pc = "precompute"
    /\ IdleExcept("print")

NextPrint == PrecomputeStep \/ PrecomputeEnd \/ PrintStep \/ PrintEnd
SpecPrint == InitPrint /\ [][NextPrint]_vars


(***************************************************************************)
(* Properties.                                                             *)
(***************************************************************************)
\* C5: two identifiers are mapped_eq under f iff both are blank and f maps
\* the label of self to the label of other, or both are IRIs and the IRIs
\* are equal, or both are invalid with equal strings; identifiers of two
\* different kinds are never mapped_eq.
IdKind(x) == IF x.tag = "Valid" THEN x.id.tag ELSE "Invalid"
IdRule ==
    (ty = TId /\ eq_pc = "ret") =>
        /\ res <=> \/ /\ IdKind(a) = "Blank" /\ IdKind(b) = "Blank"
                      /\ f[a.id.name] = b.id.name
                   \/ /\ IdKind(a) = "Iri" /\ IdKind(b) = "Iri"
                      /\ a.id.name = b.id.name
                   \/ /\ IdKind(a) = "Invalid" /\ IdKind(b) = "Invalid"
                      /\ a.str = b.str
        /\ IdKind(a) # IdKind(b) => ~res

\* Two blank identifiers with different labels that f brings into agreement
\* have been compared and found mapped_eq.
IdRuleWitness ==
    /\ ty = TId /\ eq_pc = "ret" /\ res
    /\ IdKind(a) = "Blank" /\ IdKind(b) = "Blank"
    /\ a.id.name # b.id.name

\* The elements of a slice, Vec or list object, and their type.
Elems(T, x) == IF T = TList THEN x.entry.value.value ELSE x
ElemType(T) == IF T = TList THEN TIndexedObject ELSE T[2]
IsOrdered(T) == T[1] \in {"Slice", "Vec", "List"}

\* C4: mapped_eq of ordered containers (slices, Vec, list entries) is
\* positional: true iff the lengths are equal and element i of self is
\* mapped_eq to element i of other for every i.
Positional ==
    (IsOrdered(ty) /\ eq_pc = "ret") =>
        (res <=> /\ Len(Elems(ty, a)) = Len(Elems(ty, b))
                 /\ \A i \in 1..Len(Elems(ty, a)) :
                        MappedEq(ElemType(ty), Elems(ty, a)[i], Elems(ty, b)[i], f))

\* Two sequences whose elements pair up in another order, but not in
\* place, were compared and found different.
PositionalWitness ==
    /\ IsOrdered(ty) /\ eq_pc = "ret" /\ ~res
    /\ Len(Elems(ty, a)) = 2
    /\ UnorderedMappedEq(ElemType(ty), Elems(ty, a), Elems(ty, b), f)

\* A one-to-one pairing of the items of x with the items of y in which
\* every pair satisfies the test of the container.
IsUnordered(T) == T[1] \in {"HashSet", "Unordered", "Properties", "ReverseProperties"}
ItemsPair(T, x, y, g) ==
    /\ Len(x) = Len(y)
    /\ \E p \in Permutations(1..Len(x)) :
           \A i \in 1..Len(x) : MappedEq(T, x[i], y[p[i]], g)
BindingsPair(T, x, y, g) ==
    /\ Len(x) = Len(y)
    /\ \E p \in Permutations(1..Len(x)) :
           \A i \in 1..Len(x) :
               /\ MappedEq(TId, x[i].key.value, y[p[i]].key.value, g)
               /\ ItemsPair(T, x[i].objects, y[p[i]].objects, g)
PairsUp(T, x, y, g) ==
    CASE T[1] \in {"HashSet", "Unordered"} -> ItemsPair(T[2], x, y, g)
      [] T[1] = "Properties" -> BindingsPair(TStripped(TIndexedObject), x, y, g)
      [] T[1] = "ReverseProperties" -> BindingsPair(TStripped(TIndexedNode), x, y, g)
Reorder(x, p) == [i \in 1..Len(x) |-> x[p[i]]]

\* C3: for unordered containers the greedy loop returns true iff the two
\* containers have equal cardinality and a one-to-one pairing of mapped_eq
\* items exists; the answer is the same for every iteration order of both.
GreedyIsPairing ==
    (IsUnordered(ty) /\ eq_pc = "ret") =>
        /\ res <=> PairsUp(ty, a, b, f)
        /\ \A p \in Permutations(1..Len(a)) : MappedEq(ty, Reorder(a, p), b, f) = res
        /\ \A q \in Permutations(1..Len(b)) : MappedEq(ty, a, Reorder(b, q), f) = res

\* Two items of self are mapped_eq to the same item of other, so the
\* second one has to skip a marked item; the containers were compared.
GreedyIsPairingWitness ==
    /\ ty[1] \in {"HashSet", "Unordered"} /\ eq_pc = "ret"
    /\ Len(a) = 2 /\ Len(b) = 2
    /\ MappedEq(ty[2], a[1], b[1], f)
    /\ MappedEq(ty[2], a[2], b[1], f)

(***************************************************************************)
(* Structural equality once the metadata is stripped: Canon(T, x) drops    *)
(* every metadata and replaces an unordered container by the set or the    *)
(* multiset of its items, so that two values are structurally equal iff    *)
(* their canonical forms are equal.                                        *)
(***************************************************************************)
BagOf(q) ==
    [e \in {q[i] : i \in 1..Len(q)} |-> Cardinality({i \in 1..Len(q) : q[i] = e})]

RECURSIVE Canon(_, _)
CanonNode(n) ==
    [id |-> Canon(TNodeId, n.id),
     types |-> Canon(TNodeTypes, n.types),
     graph |-> Canon(TNodeGraph, n.graph),
     included |-> Canon(TNodeIncluded, n.included),
     properties |-> Canon(TProperties, n.properties),
     reverse_properties |-> Canon(TNodeReverse, n.reverse_properties)]
CanonObject(o) ==
    CASE o.tag = "Value" -> [tag |-> "Value", lit |-> StrippedValue(o.val)]
      [] o.tag = "Node" -> [tag |-> "Node", node |-> CanonNode(o.node)]
      [] o.tag = "List" -> [tag |-> "List", items |-> Canon(TListEntry, o.list.entry)]
Canon(T, x) ==
    CASE T[1] \in {"Id", "ValidId"} -> x
      [] T[1] = "Option" -> IF Len(x) = 0 THEN None ELSE Some(Canon(T[2], x[1]))
      [] T[1] = "Meta" -> Canon(T[2], x.value)
      [] T[1] = "Stripped" -> Canon(T[2], x.stripped)
      [] T[1] = "Entry" -> Canon(T[2], x.value.value)
      [] T[1] = "Indexed" -> [index |-> IndexOf(x), inner |-> Canon(T[2], x.inner)]
      [] T[1] \in {"Vec", "Slice"} -> [i \in 1..Len(x) |-> Canon(T[2], x[i])]
      [] T[1] = "HashSet" -> {Canon(T[2], x[i]) : i \in 1..Len(x)}
      [] T[1] = "Unordered" -> BagOf([i \in 1..Len(x) |-> Canon(T[2], x[i])])
      [] T[1] = "Object" -> CanonObject(x)
      [] T[1] = "Node" -> CanonNode(x)
      [] T[1] = "List" -> Canon(TListEntry, x.entry)
      [] T[1] \in {"Properties", "ReverseProperties"} ->
             {<<Canon(TMeta(TId), x[i].key), Canon(TBindingObjects(T), x[i].objects)>> :
                 i \in 1..Len(x)}
StructEq(T, x, y) == Canon(T, x) = Canon(T, y)

IsNodeItem(T, x) == T = TStripped(TIndexedObject) /\ x.stripped.value.inner.tag = "Node"
NodeOf(x) == x.stripped.value.inner.node
\* The type sets of two nodes pair up under mapped_eq.
TypesPairUp(n, m, g) ==
    CASE Len(n.types) = 1 /\ Len(m.types) = 1 ->
             ItemsPair(TMeta(TId), n.types[1].value.value, m.types[1].value.value, g)
      [] Len(n.types) = 0 /\ Len(m.types) = 0 -> TRUE
      [] OTHER -> FALSE

\* C1: two nodes are mapped_eq under f only if their id entries are equal
\* under f, their type sets pair up, their property sets pair up and their
\* reverse properties pair up; nodes whose type sets do not pair up are
\* not mapped_eq.
NodeRule ==
    (eq_pc = "ret" /\ IsNodeItem(ty, a) /\ IsNodeItem(ty, b) /\ res) =>
        /\ OptMappedEq(TNodeId[2], NodeOf(a).id, NodeOf(b).id, f)
        /\ TypesPairUp(NodeOf(a), NodeOf(b), f)
        /\ PairsUp(TProperties, NodeOf(a).properties, NodeOf(b).properties, f)
        /\ OptMappedEq(TNodeReverse[2], NodeOf(a).reverse_properties,
                       NodeOf(b).reverse_properties, f)

\* C2: with the identity renaming, mapped_eq is true exactly when the two
\* operands (objects, expanded documents) are structurally equal once the
\* metadata is stripped.
IdentityIsStructEq ==
    (eq_pc = "ret" /\ f = Identity /\ ty \in {TStripped(TIndexedObject), TExpandedDocument}) =>
        (res <=> StructEq(ty, a, b))

\* C6: blank-node isolation: two expanded documents that are identical
\* except for one occurrence of a blank-node label, replaced by a different
\* label, are not mapped_eq under the identity renaming.
Isolation ==
    (eq_pc = "ret" /\ ty = TExpandedDocument /\ f = Identity /\ b \in RelabelOne(ty, a)) =>
        ~res

(***************************************************************************)
(* EraseMeta(T, x) is x with the metadata of every wrapper replaced by the *)
(* one metadata "m0".                                                      *)
(***************************************************************************)
RECURSIVE EraseMeta(_, _)
EraseNode(n) ==
    [id |-> EraseMeta(TNodeId, n.id),
     types |-> EraseMeta(TNodeTypes, n.types),
     graph |-> EraseMeta(TNodeGraph, n.graph),
     included |-> EraseMeta(TNodeIncluded, n.included),
     properties |-> EraseMeta(TProperties, n.properties),
     reverse_properties |-> EraseMeta(TNodeReverse, n.reverse_properties)]
EraseObject(o) ==
    CASE o.tag = "Value" -> ObjValue(Value(o.val.lit, "m0"))
      [] o.tag = "Node" -> ObjNode(EraseNode(o.node))
      [] o.tag = "List" -> ObjList([entry |-> EraseMeta(TListEntry, o.list.entry)])
EraseMeta(T, x) ==
    CASE T[1] \in {"Id", "ValidId"} -> x
      [] T[1] = "Option" -> IF Len(x) = 0 THEN None ELSE Some(EraseMeta(T[2], x[1]))
      [] T[1] = "Meta" -> Meta(EraseMeta(T[2], x.value), "m0")
      [] T[1] = "Stripped" -> Stripped(EraseMeta(T[2], x.stripped))
      [] T[1] = "Entry" -> Entry(EraseMeta(T[2], x.value.value), "m0", "m0")
      [] T[1] = "Indexed" ->
             Indexed(IF Len(x.index) = 0 THEN None
                     ELSE Some(Entry(x.index[1].value.value, "m0", "m0")),
                     EraseMeta(T[2], x.inner))
      [] T[1] \in {"Vec", "Slice", "HashSet", "Unordered"} ->
             [i \in 1..Len(x) |-> EraseMeta(T[2], x[i])]
      [] T[1] = "Object" -> EraseObject(x)
      [] T[1] = "Node" -> EraseNode(x)
      [] T[1] \in {"Properties", "ReverseProperties"} ->
             [i \in 1..Len(x) |->
                 Binding(EraseMeta(TMeta(TId), x[i].key),
                         EraseMeta(TBindingObjects(T), x[i].objects))]

IsValueItem(x) == x.stripped.value.inner.tag = "Value"

\* C7: mapped_eq ignores metadata: its result is the result on the same
\* operands with all metadata replaced; two value objects are mapped_eq
\* iff their stripped literals are equal, whatever f is.
MetadataIgnored ==
    (eq_pc = "ret" /\ ty = TStripped(TIndexedObject)) =>
        /\ res = MappedEq(ty, EraseMeta(ty, a), EraseMeta(ty, b), f)
        /\ (IsValueItem(a) /\ IsValueItem(b) /\ IndexOf(a.stripped.value) = IndexOf(b.stripped.value)) =>
               (res <=> a.stripped.value.inner.val.lit = b.stripped.value.inner.val.lit)

\* Two operands that differ, but only in their metadata, were compared and
\* found mapped_eq.
MetadataIgnoredWitness ==
    /\ eq_pc = "ret" /\ ty = TStripped(TIndexedObject) /\ res
    /\ a # b
    /\ EraseMeta(ty, a) = EraseMeta(ty, b)

ContextNonEmpty(ctx) == ~IsNull(ctx) /\ ~IsEmptyArrayOrObject(ctx)
Returned == c_pc = "done" /\ result.tag = "Ok"

\* C9: the object returned by compact_with has an `@context` entry iff the
\* supplied context, rendered as JSON, is non-empty, also when the
\* compacted form has no entries.
ContextIffNonEmpty ==
    Returned => ("@context" \in Keys(result.value.map) <=> ContextNonEmpty(json_context))

\* C9, as amended: the object returned by compact_with has an `@context`
\* entry (the supplied context) iff the supplied context is non-empty and
\* the compacted form has at least one entry.
ContextIffBothNonEmpty ==
    Returned =>
        /\ "@context" \in Keys(result.value.map) <=>
               /\ ContextNonEmpty(json_context)
               /\ Keys(result.value.map) \ {"@context"} # {}
        /\ "@context" \in Keys(result.value.map) =>
               <<"@context", json_context>> \in result.value.map

\* compact_with returned an object without entries for a non-empty context.
ContextIffBothNonEmptyWitness ==
    Returned /\ ContextNonEmpty(json_context) /\ result.value.map = {}

\* The match on the compacted result is over.
Matched == c_pc \in {"wrapped", "done"} /\ compacted.kind # "None"
GraphKeyAvailable == graph_key.tag = "Ok" /\ Len(graph_key.value) = 1
\* The map holds the compacted array under the compacted @graph key.
GraphWrapped ==
    /\ compacted.kind = "Array"
    /\ GraphKeyAvailable
    /\ <<graph_key.value[1], compacted>> \in map

\* C10: a @graph entry wrapping the compacted items is introduced iff the
\* compacted result is an array and a graph key is available; the map of a
\* compacted object is used as is.
GraphWrapIffArray ==
    Matched =>
        /\ GraphWrapped <=> (compacted.kind = "Array" /\ GraphKeyAvailable)
        /\ compacted.kind = "Object" => {e \in map : e[1] # "@context"} = compacted.map

\* C10, as amended: a @graph entry wrapping the compacted items is
\* introduced iff the compacted result is a non-empty array and a graph
\* key is available; an empty array gives a map without entries, and the
\* map of a compacted object is used as is.
GraphWrapIffNonEmptyArray ==
    Matched =>
        /\ GraphWrapped <=> (compacted.kind = "Array" /\ compacted.len # 0 /\ GraphKeyAvailable)
        /\ (compacted.kind = "Array" /\ compacted.len = 0) => map = {}
        /\ compacted.kind = "Object" => {e \in map : e[1] # "@context"} = compacted.map

\* The compacted result was an empty array while a graph key was
\* available, and the match left the map without entries.
GraphWrapIffNonEmptyArrayWitness ==
    /\ c_pc = "wrapped" /\ compacted.kind = "Array" /\ compacted.len = 0
    /\ GraphKeyAvailable /\ map = {}

\* C11: compact_with ends its post-processing with Ok(JSON object) or with
\* an Err, never with a panic, whatever the compacted result (an array, an
\* object, another JSON kind) and whatever the @graph keyword compacts to
\* (a key or none).
NeverPanics ==
    c_pc = "done" =>
        \/ result.tag = "Ok" /\ result.value.kind = "Object"
        \/ result.tag = "Err"

\* compact_with is over with an error.
Failed == c_pc = "done" /\ result.tag = "Err"
ExpansionFailed == expanded.tag = "Err"
\* The compaction of the @graph keyword is called, and fails.
GraphKeyFailed ==
    /\ c_pc \in {"wrapped", "done"}
    /\ compacted.kind = "Array" /\ compacted.len # 0
    /\ graph_key.tag = "Err"

\* C12: errors halt compact_with at the first failure and are returned as
\* they are: after a failed expansion no compaction is started and the
\* error of the expansion is the result; a failed compaction of the @graph
\* key is the result; a failing run returns the error of one of its three
\* steps and has built no map (no `@graph`, no `@context` entry).
ErrorsHalt ==
    /\ ExpansionFailed => c_pc = "done" /\ result = expanded /\ compacted = Unset
    /\ GraphKeyFailed => c_pc = "done" /\ result = graph_key
    /\ Failed =>
           /\ map = {}
           /\ \/ ExpansionFailed /\ result = expanded
              \/ ~ExpansionFailed /\ compacted = Unset /\ result \in CompactResults
              \/ ~ExpansionFailed /\ GraphKeyFailed /\ result = graph_key
    /\ (c_pc = "done" /\ (ExpansionFailed \/ compacted = Unset)) => Failed

\* The compaction of the @graph key failed on a non-empty compacted array,
\* and compact_with returned that error.
ErrorsHaltWitness == Failed /\ GraphKeyFailed /\ result = graph_key

\* The arguments with which expand calls expand_with.
OwnArguments ==
    /\ call.base_url = BaseUrl(document)
    /\ call.context = ContextNew(BaseUrl(document))
    /\ call.options = DefaultOptions

\* C13: expand returns what expand_with returns for the base URL of the
\* document, a context freshly created from that base URL, the same loader
\* and the default options, be it an expanded document or an error; the
\* base URL of a JSON value is None, that of a RemoteDocument is Some(url).
ExpandIsExpandWith ==
    /\ call.op = "expand" =>
           call.ret = ExpandWith(document, BaseUrl(document),
                                 ContextNew(BaseUrl(document)), call.loader,
                                 DefaultOptions)
    /\ (call.op = "expand_with" /\ OwnArguments) =>
           call.ret = Expand_(document, call.loader)
    /\ call.op = "base_url" =>
           /\ document.kind = "Json" => call.ret = None
           /\ document.kind = "Remote" => call.ret = Some(document.base_url)

\* expand has run on a remote document around a remote document, and has
\* expanded the JSON value against the outer base URL.
ExpandIsExpandWithWitness ==
    /\ call.op = "expand" /\ Depth(document) = 2
    /\ document.base_url # document.doc.base_url
    /\ call.ret.tag = "Ok" /\ call.ret.value.base_url = Some(document.base_url)

\* C14: a RemoteDocument remembers its base URL: after new(doc, url) and
\* any reads and writes of the contents through Deref and DerefMut,
\* base_url() is Some(url), deref gives the current contents, into_parts
\* gives (current contents, url) and into_document the current contents.
RemembersBaseUrl ==
    /\ document.kind = "Remote" =>
           /\ BaseUrl(document) = Some(new_url)
           /\ Deref(document) = new_doc
    /\ (call.op = "base_url" /\ document.kind = "Remote") => call.ret = Some(new_url)
    /\ call.op = "deref" => call.ret = new_doc
    /\ call.op = "into_parts" => call.ret = <<new_doc, new_url>>
    /\ call.op = "into_document" => call.ret = new_doc

\* into_parts has returned the contents and the base URL of the document.
RemembersBaseUrlWitness ==
    /\ call.op = "into_parts"
    /\ call.ret = <<new_doc, new_url>>
    /\ new_url = "http://ex/other"
    /\ new_doc = Json("{@id: a}")

HasColon(s) == \E i \in 1..Len(s) : s[i] = ":"
NoColon(s) == ~HasColon(s)
Constructed == ciri.type \in {"CompactIri", "CompactIriBuf"}

\* C15: a CompactIri whose string has a colon is split on the first colon:
\* prefix() is what stands before it and has no colon, suffix() is all that
\* stands after it, later colons included, and prefix() ++ ":" ++ suffix()
\* is as_str().
SplitsOnFirstColon ==
    (Constructed /\ HasColon(ciri.str)) =>
        /\ ciri_call.op = "prefix" =>
               /\ ciri_call.ret.tag = "Returns"
               /\ NoColon(ciri_call.ret.value)
               /\ \E rest \in Strings :
                      ciri_call.ret.value \o <<":">> \o rest = AsStr(ciri)
        /\ ciri_call.op = "suffix" =>
               /\ ciri_call.ret.tag = "Returns"
               /\ \E before \in Strings :
                      /\ NoColon(before)
                      /\ before \o <<":">> \o ciri_call.ret.value = AsStr(ciri)
        /\ Prefix(ciri).value \o <<":">> \o Suffix(ciri).value = AsStr(ciri)

\* prefix() has run on a string with two colons.
SplitsOnFirstColonWitness ==
    /\ Constructed /\ ciri.str = <<"a", ":", "a", ":">>
    /\ ciri_call.op = "prefix" /\ ciri_call.ret = Returns(<<"a">>)

\* C16: every CompactIri or CompactIriBuf that can be constructed and
\* queried is well formed: its string has a colon, the prefix and the
\* suffix are not empty, the suffix does not begin with `//`, and so
\* prefix() and suffix() never fail.
WellFormed ==
    Constructed =>
        /\ HasColon(ciri.str)
        /\ Prefix(ciri).value # <<>>
        /\ Suffix(ciri).value # <<>>
        /\ SubSeq(Suffix(ciri).value, 1, 2) # <<"/", "/">>
        /\ ciri_call.op \in {"prefix", "suffix"} => ciri_call.ret.tag = "Returns"

\* The order of the nodes of a document: a node comes before the nodes
\* below it and before the nodes of the entries after it.
Before(p, q) ==
    \E k \in 0..Len(p) :
        /\ k <= Len(q)
        /\ SubSeq(p, 1, k) = SubSeq(q, 1, k)
        /\ \/ k = Len(p) /\ k < Len(q)
           \/ k < Len(p) /\ k < Len(q) /\ p[k + 1] < q[k + 1]

\* C17: the size records line up between the two passes: precompute
\* pushes one record per array or object, in document order; the print
\* pass reads, for the i-th array or object it emits, the record of that
\* same array or object at index i - 1, so that the index goes up one by
\* one, never beyond the end of sizes, and is the number of records when
\* printing is over.
SizesLineUp ==
    /\ p_pc # "panic"
    /\ \A i, j \in 1..Len(sizes) : i < j => Before(sizes[i].node, sizes[j].node)
    /\ p_pc \in {"print", "done"} => Len(sizes) = Traverse("Value", context_value)
    /\ index = Len(emitted) /\ index <= Len(sizes)
    /\ \A i \in 1..Len(emitted) :
           /\ emitted[i].index = i - 1
           /\ emitted[i].size = sizes[i]
           /\ emitted[i].size.node = emitted[i].node
           /\ emitted[i].size.kind = emitted[i].kind
    /\ p_pc = "done" => index = Len(sizes)

\* The printing is over of a definition with a term that has both a scoped
\* context of two contexts and a container array, followed by another
\* expanded term.
SizesLineUpWitness ==
    /\ p_pc = "done" /\ index = Len(sizes) /\ Len(sizes) >= 6
    /\ context_value.tag = "One"
    /\ emitted[2].kind = "Object" /\ emitted[3].kind = "Array"
    /\ emitted[Len(emitted)].node = <<2>>

\* C18: mapped_eq is symmetric up to the inverse of the renaming: for a
\* bijection f with inverse g, a.mapped_eq(b, f) iff b.mapped_eq(a, g), for
\* identifiers, indexed objects, nodes, lists and expanded documents; with
\* the identity, mapped_eq is symmetric and reflexive.
SymmetricUpToInverse ==
    (/\ rel.c = rel.a
     /\ Compose(rel.g, rel.f) = [l \in Labels3 |-> l]
     /\ Compose(rel.f, rel.g) = [l \in Labels3 |-> l]) =>
        /\ rel_pc \in {"ac", "done"} => (rel_res.ab <=> rel_res.bc)
        /\ rel_pc = "done" => rel_res.ac

\* Two documents of two items that are equal under a renaming that is not
\* its own inverse, compared in both directions.
SymmetricUpToInverseWitness ==
    /\ rel_pc = "done" /\ rel.ty = TExpandedDocument
    /\ rel.c = rel.a /\ rel.g # rel.f
    /\ Len(rel.a) = 2 /\ rel.a # rel.b
    /\ rel_res.ab /\ rel_res.bc

\* C19: mapped_eq composes: if a.mapped_eq(b, f) and b.mapped_eq(c, g) then
\* a.mapped_eq(c, g after f), for all renamings f and g, through the greedy
\* matching of sets and property maps too; with the identity, mapped_eq is
\* transitive.
Composes ==
    (rel_pc = "done" /\ rel_res.ab /\ rel_res.bc) => rel_res.ac

\* Three property maps of two bindings, the first two different, chained
\* by two different renamings of which the first is not the identity.
ComposesWitness ==
    /\ rel_pc = "done" /\ rel.ty = TProperties
    /\ Len(rel.a) = 2 /\ rel.a # rel.b
    /\ rel.f # rel.g /\ rel.f # Identity
    /\ rel_res.ab /\ rel_res.bc /\ rel_res.ac
====
